---- MODULE Spec2Model ----
(***************************************************************************)
(* Rental property analysis: the amortization engine and the cash-flow     *)
(* projector of src/app.py (the "basic" engine) and src/rent_app.py (the   *)
(* "advanced" engine).                                                     *)
(*                                                                         *)
(* Numbers.  The program computes in Python floats.  Here a number is an   *)
(* integer count of decimal units, and every multiplication and division   *)
(* rounds to the nearest unit, as every float operation rounds to the      *)
(* nearest float:                                                          *)
(*   - an amount (dollars, and percentages that are results) counts units  *)
(*     of 1/MoneyScale = 0.0001;                                           *)
(*   - a rate (a percentage that is an input, a monthly rate, a growth     *)
(*     factor) counts units of 1/RateScale = 0.00000001.                   *)
(* Additions and subtractions are exact.  TLC's integers are 32 bits wide, *)
(* so amounts stay below 214748 and rates below 21.47.                     *)
(***************************************************************************)
EXTENDS Integers, Sequences, FiniteSets, TLC

\* round(x, 2) keeps hundredths: 100 units of 0.0001 make one cent.
Cent == 100
MoneyScale == Cent * Cent
RateScale == MoneyScale * MoneyScale

Abs(x) == IF x < 0 THEN -x ELSE x

\* a / b rounded to the nearest integer, ties to even, for b > 0 (the
\* rounding of a float division, and of round()).
RoundDiv(a, b) ==
    LET q == a \div b
        r == a % b
    IN  IF 2 * r < b THEN q
        ELSE IF 2 * r > b THEN q + 1
        ELSE IF q % 2 = 0 THEN q ELSE q + 1

\* x / k for an integer k # 0 of either sign (annual / 12, percent / 100,
\* loan_amount / n_payments).
DivInt(x, k) == IF k > 0 THEN RoundDiv(x, k) ELSE RoundDiv(-x, -k)

\* x * f for a rate f: round(x * f / RateScale), computed in halves of four
\* decimal digits so that no intermediate product leaves 32 bits.
MulAbs(a, b) ==
    LET a1 == a \div MoneyScale
        a0 == a % MoneyScale
        b1 == b \div MoneyScale
        b0 == b % MoneyScale
        u  == a1 * b0
        v  == a0 * b1
    IN  a1 * b1 + (u \div MoneyScale) + (v \div MoneyScale)
        + RoundDiv(((u % MoneyScale) + (v % MoneyScale)) * MoneyScale + a0 * b0,
                   RateScale)

MulRate(x, f) ==
    IF (x < 0) = (f < 0) THEN MulAbs(Abs(x), Abs(f)) ELSE -MulAbs(Abs(x), Abs(f))

\* <<q, r>> with a * b = q * c + r and 0 <= r < c, for a, b >= 0 < c, by
\* halving b (the product a * b itself may not fit 32 bits).
RECURSIVE MulDivQR(_, _, _)
MulDivQR(a, b, c) ==
    IF b = 0 THEN <<0, 0>>
    ELSE LET h == MulDivQR(a, b \div 2, c)
             odd == b % 2 = 1
             r3 == 2 * h[2] + (IF odd THEN a % c ELSE 0)
         IN  <<2 * h[1] + (IF odd THEN a \div c ELSE 0) + (r3 \div c), r3 % c>>

\* a * b / c rounded to the nearest integer, c # 0, any signs.
MulDiv(a, b, c) ==
    LET qr == MulDivQR(Abs(a), Abs(b), Abs(c))
        m  == IF 2 * qr[2] < Abs(c) THEN qr[1]
              ELSE IF 2 * qr[2] > Abs(c) THEN qr[1] + 1
              ELSE IF qr[1] % 2 = 0 THEN qr[1] ELSE qr[1] + 1
        neg == ((a < 0) # (b < 0)) # (c < 0)
    IN  IF neg THEN -m ELSE m

\* x ** n for a rate x > 0 and an integer n >= 0, by squaring.
RECURSIVE PowNat(_, _)
PowNat(x, n) ==
    IF n = 0 THEN RateScale
    ELSE LET h == PowNat(x, n \div 2)
             s == MulRate(h, h)
         IN  IF n % 2 = 1 THEN MulRate(s, x) ELSE s

\* x ** n for any integer n: a negative exponent is the reciprocal.
Pow(x, n) == IF n >= 0 THEN PowNat(x, n) ELSE MulDiv(RateScale, RateScale, PowNat(x, -n))

\* The largest rate in lo..hi whose 12th power is <= x, for lo ** 12 <= x.
RECURSIVE Root12Between(_, _, _)
Root12Step(x, lo, hi, mid) ==
    IF PowNat(mid, 12) <= x THEN Root12Between(x, mid, hi) ELSE Root12Between(x, lo, mid)

Root12Between(x, lo, hi) ==
    IF hi - lo <= 1 THEN (IF PowNat(hi, 12) <= x THEN hi ELSE lo)
    ELSE Root12Step(x, lo, hi, (lo + hi) \div 2)

\* x ** (i / 12) for a rate x >= 1 and an integer i >= 0: whole years are
\* powers of x, the months left over powers of its 12th root.
FracPow12(x, i) ==
    MulRate(PowNat(x, i \div 12), PowNat(Root12Between(x, RateScale, x), i % 12))

\* round(x, 2) of an amount.
Round2(x) == RoundDiv(x, Cent) * Cent

\* A value a function returns, or the exception it raises.
Ok(v) == [err |-> "none", val |-> v]
Raise(e) == [err |-> e, val |-> 0]

\* A float, or one of the values that are no number.
Num(x) == [is |-> "number", v |-> x]
None == [is |-> "None", v |-> 0]
NaN == [is |-> "nan", v |-> 0]
Inf == [is |-> "inf", v |-> 0]
MinusInf == [is |-> "-inf", v |-> 0]

(***************************************************************************)
(* AmortizationEngine                                                      *)
(*                                                                         *)
(* A value that the code computes once and uses several times is passed    *)
(* on as the parameter of a helper operator (Annuity, ScheduleOf,          *)
(* AppEntry, ...), which keeps TLC's evaluation of it to one.              *)
(***************************************************************************)

\* annual_interest_rate / 100 / 12
MonthlyRate(annual_percent) == DivInt(DivInt(annual_percent, 100), 12)

\* Variant of Annuity that forgets the interest (the straight-line payment at
\* every rate): the schedule of an interest-bearing loan then never reaches 0.
AnnuityStraightLine(loan_amount, monthly_rate, n_payments, X) ==
    IF n_payments = 0 THEN Raise("ZeroDivisionError")
    ELSE Ok(DivInt(loan_amount, n_payments))

\* The return statements of mortgage_payment_calc, X = (1 + monthly_rate) **
\* n_payments: no argument is validated, and a term of zero divides by zero
\* (n_payments = 0, respectively X - 1 = 0).
Annuity(loan_amount, monthly_rate, n_payments, X) ==
    IF monthly_rate = 0
    THEN IF n_payments = 0 THEN Raise("ZeroDivisionError")
         ELSE Ok(DivInt(loan_amount, n_payments))
    ELSE IF X - RateScale = 0 THEN Raise("ZeroDivisionError")
         ELSE Ok(MulDiv(loan_amount, MulRate(monthly_rate, X), X - RateScale))

\* mortgage_payment_calc of app.py.
mortgage_payment_calc(loan_amount, annual_interest_rate, loan_term_years) ==
    Annuity(loan_amount, MonthlyRate(annual_interest_rate), loan_term_years * 12,
            Pow(RateScale + MonthlyRate(annual_interest_rate), loan_term_years * 12))

\* mortgage_payment_calc of rent_app.py (the same formula, its own copy).
rent_app_mortgage_payment_calc(loan_amount, annual_interest_rate, loan_term_years) ==
    Annuity(loan_amount, MonthlyRate(annual_interest_rate), loan_term_years * 12,
            Pow(RateScale + MonthlyRate(annual_interest_rate), loan_term_years * 12))

\* Variant of NewBalance without the clamp at 0.
NewBalanceUnclamped(balance, principal) == balance - principal

\* balance = max(balance - principal, 0)
NewBalance(balance, principal) ==
    IF balance - principal > 0 THEN balance - principal ELSE 0

\* Variant of ScheduleEntry that rounds to whole dollars, round(x), instead of
\* round(x, 2).
ScheduleEntryWholeDollars(rounded, month, payment, principal, interest, balance) ==
    IF rounded
    THEN [Month |-> month, Payment |-> RoundDiv(payment, MoneyScale) * MoneyScale,
          Principal |-> RoundDiv(principal, MoneyScale) * MoneyScale,
          Interest |-> RoundDiv(interest, MoneyScale) * MoneyScale,
          Balance |-> RoundDiv(balance, MoneyScale) * MoneyScale]
    ELSE [Month |-> month, Payment |-> payment, Principal |-> principal,
          Interest |-> interest, Balance |-> balance]

\* The entry appended for `month`: app.py stores round(x, 2) of each value
\* (rounded), rent_app.py the value itself.
ScheduleEntry(rounded, month, payment, principal, interest, balance) ==
    IF rounded
    THEN [Month |-> month, Payment |-> Round2(payment), Principal |-> Round2(principal),
          Interest |-> Round2(interest), Balance |-> Round2(balance)]
    ELSE [Month |-> month, Payment |-> payment, Principal |-> principal,
          Interest |-> interest, Balance |-> balance]

\* The loop of amortization_schedule from `month` on; `balance` is the running
\* balance, which is never rounded.
RECURSIVE ScheduleFrom(_, _, _, _, _, _)

\* Variant of ScheduleStep that records the whole payment as the principal
\* portion of the entry.
ScheduleStepAllPrincipal(rounded, payment, monthly_rate, n_payments, month, balance, interest) ==
    <<ScheduleEntry(rounded, month, payment, payment, interest,
                    NewBalance(balance, payment - interest))>>
    \o ScheduleFrom(rounded, payment, monthly_rate, n_payments, month + 1,
                    NewBalance(balance, payment - interest))

ScheduleStep(rounded, payment, monthly_rate, n_payments, month, balance, interest) ==
    <<ScheduleEntry(rounded, month, payment, payment - interest, interest,
                    NewBalance(balance, payment - interest))>>
    \o ScheduleFrom(rounded, payment, monthly_rate, n_payments, month + 1,
                    NewBalance(balance, payment - interest))

ScheduleFrom(rounded, payment, monthly_rate, n_payments, month, balance) ==
    IF month > n_payments THEN << >>
    ELSE ScheduleStep(rounded, payment, monthly_rate, n_payments, month, balance,
                      MulRate(balance, monthly_rate))

\* amortization_schedule once the payment is known: its exception propagates.
ScheduleOf(rounded, payment, monthly_rate, n_payments, loan_amount) ==
    IF payment.err # "none" THEN payment
    ELSE Ok(ScheduleFrom(rounded, payment.val, monthly_rate, n_payments, 1, loan_amount))

\* amortization_schedule of app.py: every column rounded to 2 decimals.
app_amortization_schedule(loan_amount, annual_interest_rate, loan_term_years) ==
    ScheduleOf(TRUE,
               mortgage_payment_calc(loan_amount, annual_interest_rate, loan_term_years),
               MonthlyRate(annual_interest_rate), loan_term_years * 12, loan_amount)

\* amortization_schedule of rent_app.py: the columns are not rounded.
rent_app_amortization_schedule(loan_amount, annual_interest_rate, loan_term_years) ==
    ScheduleOf(FALSE,
               rent_app_mortgage_payment_calc(loan_amount, annual_interest_rate,
                                              loan_term_years),
               MonthlyRate(annual_interest_rate), loan_term_years * 12, loan_amount)

(***************************************************************************)
(* CashflowProjector                                                       *)
(***************************************************************************)

\* acc + f[k] + ... + f[Len(f)]
RECURSIVE SumFrom(_, _, _)
SumFrom(f, k, acc) == IF k > Len(f) THEN acc ELSE SumFrom(f, k + 1, acc + f[k])

\* sum(xs), xs.sum()
Sum(f) == SumFrom(f, 1, 0)

\* The running sums of f from index k on, acc being the sum before k:
\* element m is f[:m].sum().
RECURSIVE CumFrom(_, _, _)
CumFrom(f, k, acc) ==
    IF k > Len(f) THEN << >> ELSE <<acc + f[k]>> \o CumFrom(f, k + 1, acc + f[k])

\* Variant of AppEntry that leaves the HOA fee out of total_expenses.
AppEntryWithoutHoa(a, mortgage_payment, rent) ==
    LET vacancy_loss == MulRate(rent, DivInt(a.vacancy_rate, 100))
        mgmt_fee == MulRate(rent, DivInt(a.mgmt_fee_percent, 100))
        maintenance == MulRate(rent, DivInt(a.maintenance_percent, 100))
        monthly_tax == DivInt(a.tax_annual, 12)
        monthly_insurance == DivInt(a.insurance_annual, 12)
        total_expenses == a.monthly_expenses + vacancy_loss + mgmt_fee + maintenance
                          + monthly_tax + monthly_insurance + mortgage_payment
    IN  [rent |-> rent, net_cash_flow |-> rent - total_expenses]

\* The rest of one pass of the loop of calculate_cashflows of app.py, the
\* month's rent being computed.
AppEntry(a, mortgage_payment, rent) ==
    LET vacancy_loss == MulRate(rent, DivInt(a.vacancy_rate, 100))
        mgmt_fee == MulRate(rent, DivInt(a.mgmt_fee_percent, 100))
        maintenance == MulRate(rent, DivInt(a.maintenance_percent, 100))
        monthly_tax == DivInt(a.tax_annual, 12)
        monthly_insurance == DivInt(a.insurance_annual, 12)
        total_expenses == a.monthly_expenses + vacancy_loss + mgmt_fee + maintenance
                          + monthly_tax + monthly_insurance + a.hoa_monthly
                          + mortgage_payment
    IN  [rent |-> rent, net_cash_flow |-> rent - total_expenses]

\* One pass of the loop of calculate_cashflows of app.py, month = 1..months.
AppMonth(a, mortgage_payment, month) ==
    AppEntry(a, mortgage_payment,
             MulRate(a.current_rent,
                     Pow(RateScale + DivInt(DivInt(a.rent_growth_percent, 100), 12), month)))

\* Variant of AppSeries whose series stop with the loan: one element per
\* schedule entry instead of one per month of the horizon.
AppSeriesToLoanTerm(months, pts, schedule) ==
    Ok([cash_flows |-> [m \in 1..(IF Len(schedule) < months THEN Len(schedule) ELSE months)
                           |-> pts[m].net_cash_flow],
        rents |-> [m \in 1..months |-> pts[m].rent],
        schedule |-> schedule])

\* The dictionary calculate_cashflows of app.py returns.
AppSeries(months, pts, schedule) ==
    Ok([cash_flows |-> [m \in 1..months |-> pts[m].net_cash_flow],
        rents |-> [m \in 1..months |-> pts[m].rent],
        schedule |-> schedule])

\* calculate_cashflows of app.py once the schedule and the payment are known.
\* mortgage_payment_calc is called in every pass of the loop with the same
\* arguments, so with the same result.
AppProject(a, schedule, mortgage_payment) ==
    IF schedule.err # "none" THEN schedule
    ELSE AppSeries(a.years * 12,
                   [month \in 1..(a.years * 12) |->
                       AppMonth(a, mortgage_payment.val, month)],
                   schedule.val)

\* calculate_cashflows of app.py.
app_calculate_cashflows(a) ==
    AppProject(a,
               app_amortization_schedule(a.loan_amount, a.interest_rate, a.loan_term_years),
               mortgage_payment_calc(a.loan_amount, a.interest_rate, a.loan_term_years))

\* The ROI table's equity loop of app.py: one entry per schedule row i =
\* 0..len-1, the home value appreciated over i / 12 years less Balance[i], the
\* balance of row i (after payment i + 1).  Entry m here is row m - 1.
equity_list(purchase_price, appreciation_rate, balance_list) ==
    [m \in 1..Len(balance_list) |->
        MulRate(purchase_price,
                FracPow12(RateScale + DivInt(appreciation_rate, 100), m - 1))
        - balance_list[m]]

\* The equity loop run on the results of calculate_cashflows.
EquityListOf(results, purchase_price, appreciation_rate) ==
    IF results.err # "none" THEN results
    ELSE Ok([appreciation_rate |-> appreciation_rate,
             balances |-> [m \in 1..Len(results.val.schedule) |->
                              results.val.schedule[m].Balance],
             equity_list |->
                 equity_list(purchase_price, appreciation_rate,
                             [m \in 1..Len(results.val.schedule) |->
                                 results.val.schedule[m].Balance])])

\* x / down_payment * 100 for a numpy.float64 x, rounded to 2 decimals: numpy
\* divides by 0 with a warning, to inf, -inf or nan.
NumpyPercentOf(x, down_payment) ==
    IF down_payment # 0 THEN Num(Round2(MulDiv(x, 100 * MoneyScale, down_payment)))
    ELSE IF x > 0 THEN Inf
    ELSE IF x < 0 THEN MinusInf
    ELSE NaN

\* Row i (1..projection_years) of the "ROI %" column of the ROI table: the
\* cash flows of the first i years plus the equity at the end of year i (the
\* last equity of the list, past its end), over the down payment.
roi_percent(cash_flows, equity, down_payment, i) ==
    NumpyPercentOf(Sum(SubSeq(cash_flows, 1, i * 12))
                   + equity[IF i * 12 < Len(equity) THEN i * 12 ELSE Len(equity)],
                   down_payment)

\* coc_return = (year1_cf / down_payment) * 100 if down_payment else 0
coc_return(cash_flows, down_payment) ==
    IF down_payment # 0
    THEN MulDiv(Sum(SubSeq(cash_flows, 1, 12)), 100 * MoneyScale, down_payment)
    ELSE 0

\* The "ROI %" column and the cash-on-cash return of the Calculate handler.
RoiRows(cash_flows, equity, a) ==
    Ok([roi_percent |-> [i \in 1..a.years |->
                            roi_percent(cash_flows, equity, a.down_payment, i)],
        coc_return |-> coc_return(cash_flows, a.down_payment)])

\* The same on the results of calculate_cashflows.
RoiTableOf(results, a, appreciation_rate) ==
    IF results.err # "none" THEN results
    ELSE RoiRows(results.val.cash_flows,
                 equity_list(a.purchase_price, appreciation_rate,
                             [m \in 1..Len(results.val.schedule) |->
                                 results.val.schedule[m].Balance]),
                 a)

\* The cap rate of the scoring block of app.py: the rents of the first twelve
\* months less twelve times the flat monthly costs, over the purchase price,
\* in percent.
cap_rate(rents, a) ==
    IF a.purchase_price # 0
    THEN MulDiv(Sum(SubSeq(rents, 1, 12))
                - (a.monthly_expenses + DivInt(a.tax_annual, 12)
                   + DivInt(a.insurance_annual, 12) + a.hoa_monthly) * 12,
                100 * MoneyScale, a.purchase_price)
    ELSE 0

\* The cap rate computed on the results of calculate_cashflows.
CapRateOf(results, a) ==
    IF results.err # "none" THEN results
    ELSE Ok([rents |-> results.val.rents, cap_rate |-> cap_rate(results.val.rents, a)])

\* Variant of RentAppEntry in which include_expenses = False leaves the
\* operating expenses out of the cash flow.
RentAppEntryHonouringFlag(a, mortgage_pmt, amort, month, rent, infl) ==
    LET vacancy_loss == MulRate(rent, DivInt(a.vacancy_rate, 100))
        expenses == MulRate(a.monthly_expenses, infl) + MulRate(DivInt(a.tax_annual, 12), infl)
                    + MulRate(DivInt(a.insurance_annual, 12), infl)
                    + MulRate(a.hoa_monthly, infl)
        total_expenses == IF a.include_expenses
                          THEN expenses + vacancy_loss
                               + MulRate(rent - vacancy_loss, DivInt(a.mgmt_fee_percent, 100))
                               + MulRate(rent - vacancy_loss,
                                         DivInt(a.maintenance_percent, 100))
                          ELSE 0
        mortgage_payment == IF a.include_mortgage /\ month < a.loan_term_years * 12
                            THEN mortgage_pmt ELSE 0
        balance == IF month + 1 \in 1..Len(amort) THEN amort[month + 1].Balance ELSE 0
    IN  [rent |-> rent, vacancy_losses |-> vacancy_loss,
         mgmt_fees |-> MulRate(rent - vacancy_loss, DivInt(a.mgmt_fee_percent, 100)),
         maintenance |-> MulRate(rent - vacancy_loss, DivInt(a.maintenance_percent, 100)),
         expenses |-> expenses,
         total_expenses |-> total_expenses, mortgage_payments |-> mortgage_payment,
         cash_flows |-> rent - total_expenses - mortgage_payment,
         balances |-> balance, equity |-> a.purchase_price - balance]

\* The rest of one pass of the loop of calculate_cashflows of rent_app.py, the
\* month's rent and inflation factor (1 + inflation_rate) ** month being
\* computed; month = 0..n_months-1 as in range(n_months).
RentAppEntry(a, mortgage_pmt, amort, month, rent, infl) ==
    LET monthly_tax == DivInt(a.tax_annual, 12)
        monthly_insurance == DivInt(a.insurance_annual, 12)
        vacancy_loss == MulRate(rent, DivInt(a.vacancy_rate, 100))
        mgmt_fee == MulRate(rent - vacancy_loss, DivInt(a.mgmt_fee_percent, 100))
        maintenance == MulRate(rent - vacancy_loss, DivInt(a.maintenance_percent, 100))
        expenses == MulRate(a.monthly_expenses, infl) + MulRate(monthly_tax, infl)
                    + MulRate(monthly_insurance, infl) + MulRate(a.hoa_monthly, infl)
        total_expenses == expenses + vacancy_loss + mgmt_fee + maintenance
        mortgage_payment == IF a.include_mortgage /\ month < a.loan_term_years * 12
                            THEN mortgage_pmt ELSE 0
        balance == IF month + 1 \in 1..Len(amort) THEN amort[month + 1].Balance ELSE 0
    IN  [rent |-> rent, vacancy_losses |-> vacancy_loss, mgmt_fees |-> mgmt_fee,
         maintenance |-> maintenance, expenses |-> expenses,
         total_expenses |-> total_expenses, mortgage_payments |-> mortgage_payment,
         cash_flows |-> rent - total_expenses - mortgage_payment,
         balances |-> balance, equity |-> a.purchase_price - balance]

\* One pass of the loop of calculate_cashflows of rent_app.py.
RentAppMonth(a, mortgage_pmt, amort, month) ==
    RentAppEntry(a, mortgage_pmt, amort, month,
                 MulRate(a.current_rent,
                         Pow(RateScale + DivInt(DivInt(a.rent_growth_percent, 100), 12),
                             month)),
                 Pow(RateScale + DivInt(DivInt(a.inflation_percent, 100), 12), month))

\* Variant of FirstAtLeast that returns the 0-based index i instead of i + 1.
FirstAtLeastZeroBased(xs, target) ==
    IF \E i \in 1..Len(xs) : xs[i] >= target
    THEN (CHOOSE i \in 1..Len(xs) : xs[i] >= target /\ \A j \in 1..(i - 1) : xs[j] < target)
         - 1
    ELSE 0

\* next((i+1 for i, val in enumerate(xs) if val >= target), None); 0 is None.
FirstAtLeast(xs, target) ==
    IF \E i \in 1..Len(xs) : xs[i] >= target
    THEN CHOOSE i \in 1..Len(xs) : xs[i] >= target /\ \A j \in 1..(i - 1) : xs[j] < target
    ELSE 0

\* The break-even section of app.py: np.cumsum(cash_flows) and the first month
\* whose cumulative cash flow is >= down_payment (0 is None).
breakeven_month(cash_flows, down_payment) ==
    FirstAtLeast(CumFrom(cash_flows, 1, 0), down_payment)

\* The break-even section run on the results of calculate_cashflows.
BreakEvenOf(results, down_payment) ==
    IF results.err # "none" THEN results
    ELSE Ok([cash_flows |-> results.val.cash_flows,
             breakeven_month |-> breakeven_month(results.val.cash_flows, down_payment)])

\* What calculate_cashflows of rent_app.py computes after its arrays are
\* filled, and the dictionary it returns (years >= 1, purchase_price # 0).
RentAppResult(a, n_months, pts, cumulative_cash_flows) ==
    LET noi_annual ==
            DivInt(Sum([m \in 1..n_months |->
                          MulRate(pts[m].rent, RateScale - DivInt(a.vacancy_rate, 100))
                          - pts[m].expenses]),
                   n_months) * 12
        annual_cash_flow ==
            DivInt(Sum([m \in 1..n_months |-> pts[m].cash_flows]), n_months) * 12
    IN  Ok([rent |-> [m \in 1..n_months |-> pts[m].rent],
            vacancy_losses |-> [m \in 1..n_months |-> pts[m].vacancy_losses],
            mgmt_fees |-> [m \in 1..n_months |-> pts[m].mgmt_fees],
            maintenance |-> [m \in 1..n_months |-> pts[m].maintenance],
            expenses |-> [m \in 1..n_months |-> pts[m].expenses],
            total_expenses |-> [m \in 1..n_months |-> pts[m].total_expenses],
            mortgage_payments |-> [m \in 1..n_months |-> pts[m].mortgage_payments],
            cash_flows |-> [m \in 1..n_months |-> pts[m].cash_flows],
            cumulative_cash_flows |-> cumulative_cash_flows,
            balances |-> [m \in 1..n_months |-> pts[m].balances],
            equity |-> [m \in 1..n_months |-> pts[m].equity],
            roi_over_time |->
                [m \in 1..n_months |->
                    IF a.down_payment > 0
                    THEN MulDiv(cumulative_cash_flows[m], 100 * MoneyScale, a.down_payment)
                    ELSE 0],
            cap_rate |-> MulDiv(noi_annual, 100 * MoneyScale, a.purchase_price),
            coc_return |-> IF a.down_payment > 0
                           THEN MulDiv(annual_cash_flow, 100 * MoneyScale, a.down_payment)
                           ELSE 0,
            annual_cash_flow |-> annual_cash_flow,
            payback_months |-> FirstAtLeast(cumulative_cash_flows, a.down_payment),
            months |-> n_months, loan_term_months |-> a.loan_term_years * 12])

\* cumulative_cash_flows[month] = cash_flows[:month+1].sum()
RentAppSeries(a, n_months, pts) ==
    RentAppResult(a, n_months, pts,
                  CumFrom([k \in 1..n_months |-> pts[k].cash_flows], 1, 0))

\* calculate_cashflows of rent_app.py once the payment (called for only with
\* include_mortgage) and the schedule are known; their exception propagates.
RentAppProject(a, payment, amort) ==
    IF a.include_mortgage /\ payment.err # "none" THEN payment
    ELSE IF amort.err # "none" THEN amort
    ELSE RentAppSeries(a, a.years * 12,
                       [m \in 1..(a.years * 12) |->
                           RentAppMonth(a, IF a.include_mortgage THEN payment.val ELSE 0,
                                        amort.val, m - 1)])

\* calculate_cashflows of rent_app.py.
rent_app_calculate_cashflows(a) ==
    RentAppProject(a,
                   rent_app_mortgage_payment_calc(a.loan_amount, a.interest_rate,
                                                  a.loan_term_years),
                   rent_app_amortization_schedule(a.loan_amount, a.interest_rate,
                                                  a.loan_term_years))

(***************************************************************************)
(* ReturnMetrics                                                           *)
(*                                                                         *)
(* npf.irr and npf.npv are numpy_financial's, whose code is not part of    *)
(* the repository.  npf.npv is modelled by the sum it documents; npf.irr   *)
(* by its outcome, which is an argument of the model (`solver`): the root  *)
(* of the net present value, or NaN, infinity, None or an exception.       *)
(***************************************************************************)

\* npf.npv(rate, values): the sum of values[t] / (1 + rate) ** t, t from 0
\* (values[1] here is the flow of period 0).
npf_npv(rate, values) ==
    Sum([k \in 1..Len(values) |->
            MulDiv(values[k], RateScale, Pow(RateScale + rate, k - 1))])

\* The rates between which the root of a series is looked for: -5% and 20% a
\* period (a rate times 100 must stay below 21.47).
RootLo == -(RateScale \div 20)
RootHi == RateScale \div 5

\* The series has its root in RootLo..RootHi: its net present value changes
\* sign between them.
HasRoot(values) == npf_npv(RootLo, values) >= 0 /\ npf_npv(RootHi, values) < 0

\* The largest rate in lo..hi at which the net present value of `values` is
\* >= 0, the value falling as the rate grows (a negative seed followed by
\* positive flows).
RECURSIVE RootBetween(_, _, _)
RootStep(values, lo, hi, mid) ==
    IF npf_npv(mid, values) >= 0 THEN RootBetween(values, mid, hi)
    ELSE RootBetween(values, lo, mid)

RootBetween(values, lo, hi) ==
    IF hi - lo <= 1 THEN lo ELSE RootStep(values, lo, hi, (lo + hi) \div 2)

\* npf.irr(values), its outcome being `solver`.
npf_irr(values, solver) ==
    CASE solver = "root" -> Ok(Num(RootBetween(values, RootLo, RootHi)))
      [] solver = "nan" -> Ok(NaN)
      [] solver = "inf" -> Ok(Inf)
      [] solver = "None" -> Ok(None)
      [] solver = "raises" -> Raise("Exception")

\* The return statement and the except clause of calculate_irr: None for
\* None, for NaN and for any exception; irr * 100 otherwise, which for an
\* infinite irr is infinite.
IrrReturn(irr) ==
    IF irr.err # "none" THEN Ok(None)
    ELSE IF irr.val.is = "None" \/ irr.val.is = "nan" THEN Ok(None)
    ELSE IF irr.val.is = "inf" THEN Ok(Inf)
    ELSE Ok(Num(irr.val.v * 100))

\* calculate_irr of app.py.
calculate_irr(cash_flows, down_payment, solver) ==
    IrrReturn(npf_irr(<<-down_payment>> \o cash_flows, solver))

\* Variant of calculate_npv that takes the annual rate for the monthly one
\* (no / 12).
calculate_npv_annual_rate(cash_flows, down_payment, discount_rate) ==
    Ok(Num(npf_npv(DivInt(discount_rate, 100), <<-down_payment>> \o cash_flows)))

\* calculate_npv of app.py (npf.npv raises for no argument of the model).
calculate_npv(cash_flows, down_payment, discount_rate) ==
    Ok(Num(npf_npv(DivInt(DivInt(discount_rate, 100), 12),
                   <<-down_payment>> \o cash_flows)))

\* A metric of the quick summary: the text N/A, or a number as its format
\* rounds it.
NotAvailable == [text |-> "N/A", number |-> 0]
Shown(x) == [text |-> "number", number |-> x]
ShownInf == [text |-> "inf", number |-> 0]

\* `x` used as a condition: None and 0.0 are false, every other float, NaN
\* and infinity included, is true.
Truthy(x) == ~(x.is = "None" \/ (x.is = "number" /\ x.v = 0))

\* f"{irr:.2f}%" if irr else "N/A": hundredths of a percent.
irr_metric(irr) ==
    IF ~Truthy(irr) THEN NotAvailable
    ELSE IF irr.is = "inf" THEN ShownInf
    ELSE Shown(RoundDiv(irr.v, RateScale \div Cent))

\* f"${npv:,.0f}" if npv else "N/A": whole dollars.
npv_metric(npv) ==
    IF ~Truthy(npv) THEN NotAvailable
    ELSE IF npv.is = "inf" THEN ShownInf
    ELSE Shown(RoundDiv(npv.v, MoneyScale))

\* The IRR and NPV metrics of the quick summary, the two functions having
\* returned (neither raises).
QuickSummaryOf(irr, npv) ==
    Ok([irr |-> irr.val, npv |-> npv.val,
        irr_metric |-> irr_metric(irr.val), npv_metric |-> npv_metric(npv.val)])

(***************************************************************************)
(* DealScorer (the scoring block of the Calculate handler of app.py)       *)
(*                                                                         *)
(* Metrics, targets, weights and scores are floats, held in 1/MoneyScale.  *)
(***************************************************************************)

Points(n) == n * MoneyScale

Min(x, y) == IF x <= y THEN x ELSE y

\* round(x, 1)
Round1(x) == RoundDiv(x, Cent * 10) * (Cent * 10)

\* Variant of normalize without the clamp at 1.0.
normalize_unclamped(value, ideal, max_score) ==
    MulRate(max_score, MulDiv(value, RateScale, ideal))

\* Variant of normalize that takes max for min.
normalize_max_for_min(value, ideal, max_score) ==
    MulRate(max_score, -Min(-MulDiv(value, RateScale, ideal), -RateScale))

\* normalize(value, ideal, max_score), for ideal # 0: the ratio value / ideal
\* is held in 1/RateScale.
normalize(value, ideal, max_score) ==
    MulRate(max_score, Min(MulDiv(value, RateScale, ideal), RateScale))

\* Variant of deal_score that leaves the cap-rate score out.
deal_score_without_cap_score(coc_score, roi_score, irr_score, npv_score, cap_score) ==
    Round1(coc_score + roi_score + irr_score + npv_score)

\* deal_score = round(coc_score + roi_score + irr_score + npv_score + cap_score, 1)
deal_score(coc_score, roi_score, irr_score, npv_score, cap_score) ==
    Round1(coc_score + roi_score + irr_score + npv_score + cap_score)

\* The if / elif chain on deal_score.
rating(score) ==
    IF score >= Points(90) THEN "Excellent Deal"
    ELSE IF score >= Points(75) THEN "Strong Deal"
    ELSE IF score >= Points(60) THEN "Moderate Deal"
    ELSE "Weak Deal"

\* x or 0, for x a float or None (x is no infinity here).
OrZero(x) == IF Truthy(x) THEN x.v ELSE 0

\* The metrics irr and npv after `or 0`, the five scores, the deal score and
\* the rating.
Scored(irr, npv, coc_score, roi_score, irr_score, npv_score, cap_score, total) ==
    [irr |-> irr, npv |-> npv, finite |-> TRUE,
     coc_score |-> coc_score, roi_score |-> roi_score, irr_score |-> irr_score,
     npv_score |-> npv_score, cap_score |-> cap_score,
     deal_score |-> total, rating |-> rating(total)]

ScoredOf(irr, npv, coc_score, roi_score, irr_score, npv_score, cap_score) ==
    Scored(irr, npv, coc_score, roi_score, irr_score, npv_score, cap_score,
           deal_score(coc_score, roi_score, irr_score, npv_score, cap_score))

\* The scores of a negative numpy npv over a down payment of 0: npv_score is
\* min(-inf, 1.0) * 15 = -inf, and so is the deal score, which no threshold
\* of the rating admits.
ScoredMinusInf(irr, npv, coc_score, roi_score, irr_score, cap_score) ==
    [irr |-> irr, npv |-> npv, finite |-> FALSE,
     coc_score |-> coc_score, roi_score |-> roi_score, irr_score |-> irr_score,
     npv_score |-> MinusInf, cap_score |-> cap_score,
     deal_score |-> MinusInf, rating |-> "Weak Deal"]

\* The scoring block, irr and npv being the metrics after `or 0`.  Nothing
\* guards value / ideal for the ideal 0 of a down payment of 0: a Python
\* number (a float npv, or the int 0 of `or 0`) raises ZeroDivisionError, a
\* numpy.float64 npv divides to inf or -inf.
DealScoreWith(a, irr, npv) ==
    IF a.down_payment = 0 /\ (a.npv_is = "float" \/ npv = 0)
    THEN Raise("ZeroDivisionError")
    ELSE IF a.down_payment = 0 /\ npv < 0
    THEN Ok(ScoredMinusInf(irr, npv,
                           normalize(a.coc_return, Points(12), Points(30)),
                           normalize(a.roi_final, Points(100), Points(25)),
                           normalize(irr, Points(15), Points(20)),
                           normalize(a.cap_rate, Points(6), Points(10))))
    ELSE Ok(ScoredOf(irr, npv,
                     normalize(a.coc_return, Points(12), Points(30)),
                     normalize(a.roi_final, Points(100), Points(25)),
                     normalize(irr, Points(15), Points(20)),
                     IF a.down_payment = 0 THEN Points(15)
                     ELSE normalize(npv, a.down_payment, Points(15)),
                     normalize(a.cap_rate, Points(6), Points(10))))

\* irr = calculate_irr(...) or 0, npv = calculate_npv(...) or 0, and the
\* scoring block.
DealScoreOf(a) == DealScoreWith(a, OrZero(a.irr), OrZero(a.npv))

(***************************************************************************)
(* The state machine: a set of arguments, and the call made with them.     *)
(* Every engine call is a pure function of its arguments (spec section 5), *)
(* so a behaviour is one choice of arguments followed by one call.         *)
(***************************************************************************)

VARIABLES
    inp,    \* the arguments: the values of the input widgets
    out,    \* the call made with them and what it returned or raised
    log     \* the calls made so far, where calls are repeated (SpecRepeat)

vars == <<inp, out, log>>

\* Bounds of the model.
MaxTermYears == 2
MaxYears == 2

Dollars(d) == d * MoneyScale
Percent(tenths) == tenths * (RateScale \div 10)

\* Operating assumptions: all zero (app.py outside its Advanced mode), the
\* defaults of the Advanced widgets, and a third set with other values.
Operating ==
    { [monthly_expenses |-> 0, vacancy_rate |-> 0, mgmt_fee_percent |-> 0,
       maintenance_percent |-> 0, hoa_monthly |-> 0, rent_growth_percent |-> 0,
       inflation_percent |-> 0],
      [monthly_expenses |-> Dollars(2), vacancy_rate |-> Percent(50),
       mgmt_fee_percent |-> Percent(80), maintenance_percent |-> Percent(50),
       hoa_monthly |-> 15 * Cent * 10, rent_growth_percent |-> Percent(25),
       inflation_percent |-> Percent(20)],
      [monthly_expenses |-> Dollars(1), vacancy_rate |-> Percent(100),
       mgmt_fee_percent |-> Percent(100), maintenance_percent |-> Percent(30),
       hoa_monthly |-> 0, rent_growth_percent |-> Percent(60),
       inflation_percent |-> 0] }

\* A loan on a purchase of 3000 and the rent of the property: 60% down and a
\* rent of 22 a month, which never pays the down payment back within the
\* horizon, 20% down and a rent of 320 a month, which does, or nothing down
\* (a down payment of 0%) and a rent of 320.
Deals ==
    { [loan_amount |-> Dollars(1200), current_rent |-> Dollars(22)],
      [loan_amount |-> Dollars(2400), current_rent |-> Dollars(320)],
      [loan_amount |-> Dollars(3000), current_rent |-> Dollars(320)] }

\* The arguments of a projection: a valid loan on a purchase of 3000, a rent,
\* a horizon of 1..MaxYears years.
ProjectionInputs ==
    { [kind |-> "projection", purchase_price |-> Dollars(3000),
       down_payment |-> Dollars(3000) - d.loan_amount, loan_amount |-> d.loan_amount,
       loan_term_years |-> t, interest_rate |-> Percent(r),
       current_rent |-> d.current_rent, tax_annual |-> Dollars(35),
       insurance_annual |-> Dollars(12), years |-> y,
       include_mortgage |-> im, include_expenses |-> ie,
       monthly_expenses |-> o.monthly_expenses, vacancy_rate |-> o.vacancy_rate,
       mgmt_fee_percent |-> o.mgmt_fee_percent,
       maintenance_percent |-> o.maintenance_percent, hoa_monthly |-> o.hoa_monthly,
       rent_growth_percent |-> o.rent_growth_percent,
       inflation_percent |-> o.inflation_percent] :
      d \in Deals, t \in 1..MaxTermYears, r \in {0, 60},
      y \in 1..MaxYears, im \in BOOLEAN, ie \in BOOLEAN, o \in Operating }

\* Expected Property Appreciation Rate (% per year): none, and the default.
AppreciationRates == {0, Percent(30)}

\* The arguments of the amortization functions called on their own: valid and
\* invalid loans (principal <= 0, term <= 0, rate < 0).
LoanInputs ==
    { [kind |-> "loan", loan_amount |-> Dollars(la), loan_term_years |-> t,
       interest_rate |-> Percent(r)] :
      la \in {-1200, 0, 1000, 2400}, t \in -1..MaxTermYears, r \in {-60, 0, 60, 120} }

\* The outcomes of npf.irr.
SolverOutcomes == {"root", "nan", "inf", "None", "raises"}

\* The arguments of calculate_irr and calculate_npv: a constant monthly cash
\* flow of 0, 10 or 30 over 6 or 12 months, a down payment of 0, 100 or 300, a
\* discount rate of 0 or 8%, and the outcome of the solver, which is a root
\* only where the series has one.
MetricsInputs ==
    { a \in [kind : {"metrics"},
             cash_flows : { [k \in 1..n |-> Dollars(c)] : n \in {6, 12}, c \in {0, 10, 30} },
             down_payment : {Dollars(0), Dollars(100), Dollars(300)},
             discount_rate : {0, Percent(80)},
             solver : SolverOutcomes] :
        a.solver = "root" => HasRoot(<<-a.down_payment>> \o a.cash_flows) }

\* The metrics the scoring block is given: percents, and dollars for npv and
\* down_payment; irr and npv as calculate_irr and calculate_npv return them
\* (None, or a number), npv being a Python float or a numpy.float64 with the
\* numpy_financial installed.
ScoreInputs ==
    [kind : {"score"},
     coc_return : {Points(-6), Points(0), Points(6), Points(12), Points(24)},
     roi_final : {Points(0), Points(100)},
     irr : {None, Num(0), Num(Points(15))},
     npv : {None, Num(Points(-200)), Num(0), Num(Points(998)), Num(Points(1000))},
     npv_is : {"float", "numpy.float64"},
     cap_rate : {Points(0), Points(6)},
     down_payment : {Points(0), Points(1000)}]

NoCall == [fn |-> "none", file |-> "none", ret |-> Ok(0)]

Init ==
    /\ inp \in LoanInputs \cup ProjectionInputs \cup MetricsInputs \cup ScoreInputs
    /\ out = NoCall
    /\ log = << >>

\* app.py: mortgage_payment_calc(loan_amount, interest_rate, loan_term_years)
MortgagePaymentCalc ==
    /\ out.fn = NoCall.fn
    /\ inp.kind = "loan"
    /\ out' = [fn |-> "mortgage_payment_calc", file |-> "app",
               ret |-> mortgage_payment_calc(inp.loan_amount, inp.interest_rate,
                                             inp.loan_term_years)]
    /\ UNCHANGED <<inp, log>>

\* rent_app.py: mortgage_payment_calc(loan_amount, interest_rate, loan_term_years)
RentAppMortgagePaymentCalc ==
    /\ out.fn = NoCall.fn
    /\ inp.kind = "loan"
    /\ out' = [fn |-> "mortgage_payment_calc", file |-> "rent_app",
               ret |-> rent_app_mortgage_payment_calc(inp.loan_amount, inp.interest_rate,
                                                      inp.loan_term_years)]
    /\ UNCHANGED <<inp, log>>

\* app.py: amortization_schedule(loan_amount, interest_rate, loan_term_years)
AmortizationSchedule ==
    /\ out.fn = NoCall.fn
    /\ inp.kind = "loan"
    /\ out' = [fn |-> "amortization_schedule", file |-> "app",
               ret |-> app_amortization_schedule(inp.loan_amount, inp.interest_rate,
                                                 inp.loan_term_years)]
    /\ UNCHANGED <<inp, log>>

\* rent_app.py: amortization_schedule(loan_amount, interest_rate, loan_term_years)
RentAppAmortizationSchedule ==
    /\ out.fn = NoCall.fn
    /\ inp.kind = "loan"
    /\ out' = [fn |-> "amortization_schedule", file |-> "rent_app",
               ret |-> rent_app_amortization_schedule(inp.loan_amount, inp.interest_rate,
                                                      inp.loan_term_years)]
    /\ UNCHANGED <<inp, log>>

\* app.py: calculate_cashflows(...), which has no include_* parameters.
CalculateCashflows ==
    /\ out.fn = NoCall.fn
    /\ inp.kind = "projection"
    /\ inp.include_mortgage /\ inp.include_expenses
    /\ out' = [fn |-> "calculate_cashflows", file |-> "app",
               ret |-> app_calculate_cashflows(inp)]
    /\ UNCHANGED <<inp, log>>

\* app.py: the break-even section, run on the cash flows of the calculation.
BreakEven ==
    /\ out.fn = NoCall.fn
    /\ inp.kind = "projection"
    /\ inp.include_mortgage /\ inp.include_expenses
    /\ out' = [fn |-> "breakeven_month", file |-> "app",
               ret |-> BreakEvenOf(app_calculate_cashflows(inp), inp.down_payment)]
    /\ UNCHANGED <<inp, log>>

\* app.py: the equity loop of the ROI table, with the appreciation rate read
\* from its widget.
EquityList ==
    /\ out.fn = NoCall.fn
    /\ inp.kind = "projection"
    /\ inp.include_mortgage /\ inp.include_expenses
    /\ \E appreciation_rate \in AppreciationRates :
          out' = [fn |-> "equity_list", file |-> "app",
                  ret |-> EquityListOf(app_calculate_cashflows(inp), inp.purchase_price,
                                       appreciation_rate)]
    /\ UNCHANGED <<inp, log>>

\* app.py: the ROI % column of the ROI table and the cash-on-cash return
RoiTable ==
    /\ out.fn = NoCall.fn
    /\ inp.kind = "projection"
    /\ inp.include_mortgage /\ inp.include_expenses
    /\ \E appreciation_rate \in AppreciationRates :
          out' = [fn |-> "roi_table", file |-> "app",
                  ret |-> RoiTableOf(app_calculate_cashflows(inp), inp, appreciation_rate)]
    /\ UNCHANGED <<inp, log>>

\* app.py: the cap rate of the Calculate handler, computed on the rents of
\* calculate_cashflows
CapRate ==
    /\ out.fn = NoCall.fn
    /\ inp.kind = "projection"
    /\ inp.include_mortgage /\ inp.include_expenses
    /\ out' = [fn |-> "cap_rate", file |-> "app",
               ret |-> CapRateOf(app_calculate_cashflows(inp), inp)]
    /\ UNCHANGED <<inp, log>>

\* app.py: calculate_irr(cash_flows, down_payment)
CalculateIrr ==
    /\ out.fn = NoCall.fn
    /\ inp.kind = "metrics"
    /\ out' = [fn |-> "calculate_irr", file |-> "app",
               ret |-> calculate_irr(inp.cash_flows, inp.down_payment, inp.solver)]
    /\ UNCHANGED <<inp, log>>

\* app.py: calculate_npv(cash_flows, down_payment, discount_rate)
CalculateNpv ==
    /\ out.fn = NoCall.fn
    /\ inp.kind = "metrics"
    /\ out' = [fn |-> "calculate_npv", file |-> "app",
               ret |-> calculate_npv(inp.cash_flows, inp.down_payment, inp.discount_rate)]
    /\ UNCHANGED <<inp, log>>

\* app.py: the IRR and NPV metrics of the quick summary
QuickSummary ==
    /\ out.fn = NoCall.fn
    /\ inp.kind = "metrics"
    /\ out' = [fn |-> "quick_summary", file |-> "app",
               ret |-> QuickSummaryOf(
                           calculate_irr(inp.cash_flows, inp.down_payment, inp.solver),
                           calculate_npv(inp.cash_flows, inp.down_payment,
                                         inp.discount_rate))]
    /\ UNCHANGED <<inp, log>>

\* app.py: the scoring block of the Calculate handler
DealScore ==
    /\ out.fn = NoCall.fn
    /\ inp.kind = "score"
    /\ out' = [fn |-> "deal_score", file |-> "app", ret |-> DealScoreOf(inp)]
    /\ UNCHANGED <<inp, log>>

\* rent_app.py: calculate_cashflows(..., include_mortgage, include_expenses)
RentAppCalculateCashflows ==
    /\ out.fn = NoCall.fn
    /\ inp.kind = "projection"
    /\ out' = [fn |-> "calculate_cashflows", file |-> "rent_app",
               ret |-> rent_app_calculate_cashflows(inp)]
    /\ UNCHANGED <<inp, log>>

Next ==
    \/ MortgagePaymentCalc
    \/ RentAppMortgagePaymentCalc
    \/ AmortizationSchedule
    \/ RentAppAmortizationSchedule
    \/ CalculateCashflows
    \/ BreakEven
    \/ EquityList
    \/ RoiTable
    \/ CapRate
    \/ CalculateIrr
    \/ CalculateNpv
    \/ QuickSummary
    \/ DealScore
    \/ RentAppCalculateCashflows

Spec == Init /\ [][Next]_vars

(***************************************************************************)
(* Repeated calls: the same arguments, and up to MaxCalls calls of          *)
(* calculate_cashflows of either engine in any order, each recorded in     *)
(* `log`.                                                                  *)
(***************************************************************************)

MaxCalls == 3

\* The arguments the calls are repeated with: one year of horizon and of loan.
RepeatInputs ==
    { a \in ProjectionInputs :
        a.years = 1 /\ a.loan_term_years = 1 /\ a.include_expenses }

InitRepeat ==
    /\ inp \in RepeatInputs
    /\ out = NoCall
    /\ log = << >>

\* What a call of app.py's calculate_cashflows would return if the lists
\* cash_flows and rents were kept from its previous call instead of being
\* created in the call.
KeepingLists(prev, results) ==
    IF prev.fn = "calculate_cashflows" /\ prev.file = "app"
    THEN Ok([cash_flows |-> prev.ret.val.cash_flows \o results.val.cash_flows,
             rents |-> prev.ret.val.rents \o results.val.rents,
             schedule |-> results.val.schedule])
    ELSE results

\* Variant of RepeatCalculateCashflows with that hidden state.
RepeatCalculateCashflowsKeepingLists ==
    /\ Len(log) < MaxCalls
    /\ inp.include_mortgage
    /\ out' = [fn |-> "calculate_cashflows", file |-> "app",
               ret |-> KeepingLists(out, app_calculate_cashflows(inp))]
    /\ log' = Append(log, out')
    /\ UNCHANGED inp

\* app.py: calculate_cashflows(...), once more.
RepeatCalculateCashflows ==
    /\ Len(log) < MaxCalls
    /\ inp.include_mortgage
    /\ out' = [fn |-> "calculate_cashflows", file |-> "app",
               ret |-> app_calculate_cashflows(inp)]
    /\ log' = Append(log, out')
    /\ UNCHANGED inp

\* rent_app.py: calculate_cashflows(...), once more.
RepeatRentAppCalculateCashflows ==
    /\ Len(log) < MaxCalls
    /\ out' = [fn |-> "calculate_cashflows", file |-> "rent_app",
               ret |-> rent_app_calculate_cashflows(inp)]
    /\ log' = Append(log, out')
    /\ UNCHANGED inp

NextRepeat ==
    \/ RepeatCalculateCashflows
    \/ RepeatRentAppCalculateCashflows

SpecRepeat == InitRepeat /\ [][NextRepeat]_vars

(***************************************************************************)
(* Sessions: the scripts are run again from the top on every interaction.  *)
(* `inp` holds what the widgets hold (the mode of app.py, its Advanced     *)
(* expense settings, the Advanced Inputs of rent_app.py), `out` the last   *)
(* calculation and `log` all of them, each with the operating assumptions  *)
(* it was made with.                                                       *)
(***************************************************************************)

MaxRuns == 2

Modes == {"Basic (Non-Rental)", "Basic (With Rent)", "Advanced"}

\* monthly_expenses = vacancy_rate = ... = discount_rate = 0 of app.py
ZeroSettings ==
    [monthly_expenses |-> 0, vacancy_rate |-> 0, mgmt_fee_percent |-> 0,
     maintenance_percent |-> 0, hoa_monthly |-> 0, discount_rate |-> 0,
     rent_growth_percent |-> 0, inflation_percent |-> 0]

\* The defaults of the Advanced expense settings of app.py.
DefaultSettings ==
    [monthly_expenses |-> Dollars(200), vacancy_rate |-> Percent(50),
     mgmt_fee_percent |-> Percent(80), maintenance_percent |-> Percent(50),
     hoa_monthly |-> Dollars(150), discount_rate |-> Percent(80),
     rent_growth_percent |-> Percent(25), inflation_percent |-> Percent(20)]

\* What a user may hold in the Advanced expense settings: the defaults, or
\* other values.
AdvancedSettings ==
    { DefaultSettings,
      [monthly_expenses |-> Dollars(500), vacancy_rate |-> Percent(100),
       mgmt_fee_percent |-> Percent(100), maintenance_percent |-> Percent(30),
       hoa_monthly |-> 0, discount_rate |-> Percent(60),
       rent_growth_percent |-> Percent(60), inflation_percent |-> Percent(35)] }

\* The typical averages of the basic analysis of rent_app.py, which are also
\* the defaults of its Advanced Inputs.
TypicalAverages ==
    [vacancy_rate |-> Percent(50), monthly_expenses |-> Dollars(350),
     tax_annual |-> Dollars(2400), insurance_annual |-> Dollars(1200),
     hoa_monthly |-> 0, mgmt_fee_percent |-> Percent(80),
     maintenance_percent |-> Percent(50), rent_growth_percent |-> Percent(25),
     inflation_percent |-> Percent(20)]

\* What a user may hold in the Advanced Inputs of rent_app.py.
AdvancedInputs ==
    { TypicalAverages,
      [vacancy_rate |-> Percent(120), monthly_expenses |-> Dollars(100),
       tax_annual |-> Dollars(3000), insurance_annual |-> Dollars(900),
       hoa_monthly |-> Dollars(40), mgmt_fee_percent |-> 0,
       maintenance_percent |-> Percent(75), rent_growth_percent |-> 0,
       inflation_percent |-> Percent(40)] }

InitSession ==
    /\ inp = [kind |-> "session", mode |-> "Basic (Non-Rental)",
              advanced |-> DefaultSettings, adv |-> TypicalAverages]
    /\ out = NoCall
    /\ log = << >>

\* Variant of SettingsOf without the reset to 0 of every run: the values of
\* the Advanced widgets, whatever the mode.
SettingsKeptFromAdvanced(mode, advanced) == advanced

\* The operating assumptions of one run of app.py: all 0, and in Advanced
\* mode the values of the widgets of the expander.
SettingsOf(mode, advanced) == IF mode = "Advanced" THEN advanced ELSE ZeroSettings

\* app.py: the mode radio.  The Advanced widgets are not drawn in the other
\* modes: they come back with the values they had, or with their defaults.
SelectMode ==
    /\ \E m \in Modes \ {inp.mode} :
        \E kept \in {inp.advanced, DefaultSettings} :
            inp' = [inp EXCEPT !.mode = m, !.advanced = kept]
    /\ UNCHANGED <<out, log>>

\* app.py: the widgets of the Advanced expense settings.
EnterAdvancedSettings ==
    /\ inp.mode = "Advanced"
    /\ \E o \in AdvancedSettings \ {inp.advanced} : inp' = [inp EXCEPT !.advanced = o]
    /\ UNCHANGED <<out, log>>

\* rent_app.py: the widgets of the Advanced Inputs column.
EnterAdvancedInputs ==
    /\ \E o \in AdvancedInputs \ {inp.adv} : inp' = [inp EXCEPT !.adv = o]
    /\ UNCHANGED <<out, log>>

\* app.py: the Calculate button.  Outside Basic (Non-Rental) the assumptions
\* of the run are the arguments of calculate_cashflows, calculate_npv taking
\* discount_rate.
Calculate ==
    /\ Len(log) < MaxRuns
    /\ out' = [fn |-> IF inp.mode = "Basic (Non-Rental)" THEN "payment_summary"
                      ELSE "calculate_cashflows",
               file |-> "app", mode |-> inp.mode, widgets |-> inp.advanced,
               ret |-> Ok(SettingsOf(inp.mode, inp.advanced))]
    /\ log' = Append(log, out')
    /\ UNCHANGED inp

\* rent_app.py: the Calculate Basic Analysis button.
CalculateBasicAnalysis ==
    /\ Len(log) < MaxRuns
    /\ out' = [fn |-> "calculate_cashflows", file |-> "rent_app", mode |-> "Basic",
               widgets |-> inp.adv, ret |-> Ok(TypicalAverages)]
    /\ log' = Append(log, out')
    /\ UNCHANGED inp

\* rent_app.py: the Calculate Advanced Analysis button.
CalculateAdvancedAnalysis ==
    /\ Len(log) < MaxRuns
    /\ out' = [fn |-> "calculate_cashflows", file |-> "rent_app", mode |-> "Advanced",
               widgets |-> inp.adv, ret |-> Ok(inp.adv)]
    /\ log' = Append(log, out')
    /\ UNCHANGED inp

NextSession ==
    \/ SelectMode
    \/ EnterAdvancedSettings
    \/ EnterAdvancedInputs
    \/ Calculate
    \/ CalculateBasicAnalysis
    \/ CalculateAdvancedAnalysis

SpecSession == InitSession /\ [][NextSession]_vars

(***************************************************************************)
(* Properties.  `out` holds the call that was made and its result; `inp`   *)
(* the arguments it was made with.                                         *)
(***************************************************************************)

\* principal > 0, rate >= 0, termYears > 0
ValidLoan(a) == a.loan_amount > 0 /\ a.loan_term_years > 0 /\ a.interest_rate >= 0

PaymentReturned == out.fn = "mortgage_payment_calc"
ScheduleReturned == out.fn = "amortization_schedule"
ProjectionReturned == out.fn = "calculate_cashflows"

\* The payment of the loan of `inp`, as the engine of the call computes it.
LoanPayment ==
    IF out.file = "app"
    THEN mortgage_payment_calc(inp.loan_amount, inp.interest_rate, inp.loan_term_years).val
    ELSE rent_app_mortgage_payment_calc(inp.loan_amount, inp.interest_rate,
                                        inp.loan_term_years).val

\* The balance entry k of schedule s starts from.
BalanceBefore(s, k) == IF k = 1 THEN inp.loan_amount ELSE s[k - 1].Balance

\* The Principal column of schedule s.
PrincipalColumn(s) == [k \in 1..Len(s) |-> s[k].Principal]

\* The rent series of the projection returned.
RentSeries == IF out.file = "app" THEN out.ret.val.rents ELSE out.ret.val.rent

\* The operating costs app.py charges in a month whose rent is `rent`.
AppOperatingCosts(a, rent) ==
    MulRate(rent, DivInt(a.vacancy_rate, 100))
    + MulRate(rent, DivInt(a.mgmt_fee_percent, 100))
    + MulRate(rent, DivInt(a.maintenance_percent, 100))
    + DivInt(a.tax_annual, 12) + DivInt(a.insurance_annual, 12)
    + a.hoa_monthly + a.monthly_expenses

\* The fixed costs rent_app.py charges in its month `month` (0-based), each
\* inflated on its own.
RentAppFixedCosts(a, month) ==
    LET infl == Pow(RateScale + DivInt(DivInt(a.inflation_percent, 100), 12), month)
    IN  MulRate(a.monthly_expenses, infl) + MulRate(DivInt(a.tax_annual, 12), infl)
        + MulRate(DivInt(a.insurance_annual, 12), infl) + MulRate(a.hoa_monthly, infl)

\* C1, as claimed: mortgage_payment_calc called with principal <= 0, a term
\* <= 0 or a rate < 0 fails with InvalidInputError and returns no payment.
\* The code validates nothing: it returns a number for a negative principal
\* or rate, 0 for a principal of 0, and raises ZeroDivisionError for a term
\* of 0.
C1_InvalidLoanRaisesInvalidInputError ==
    (PaymentReturned /\ ~ValidLoan(inp)) => out.ret.err = "InvalidInputError"

\* C2, amended: for a valid loan at rate 0 the payment is principal / n
\* rounded to the nearest representable number (n = termYears * 12), and in
\* the schedule the Balance of each entry is lower than the Balance before it
\* (the principal, for the first entry) by the payment, to within one cent:
\* app.py stores round(balance, 2).
C2_ZeroRateStraightLine ==
    /\ (PaymentReturned /\ ValidLoan(inp) /\ inp.interest_rate = 0) =>
          /\ out.ret.err = "none"
          /\ 2 * Abs(out.ret.val * (inp.loan_term_years * 12) - inp.loan_amount)
                <= inp.loan_term_years * 12
    /\ (ScheduleReturned /\ ValidLoan(inp) /\ inp.interest_rate = 0) =>
          /\ out.ret.err = "none"
          /\ Len(out.ret.val) = inp.loan_term_years * 12
          /\ \A k \in 1..Len(out.ret.val) :
                Abs(BalanceBefore(out.ret.val, k) - out.ret.val[k].Balance - LoanPayment)
                   <= Cent

\* C2, a state of its case: app.py's schedule of 1000 over 12 months at rate
\* 0, where an entry's Balance is not lower than the one before by the payment.
C2_Witness ==
    /\ ScheduleReturned /\ out.file = "app" /\ out.ret.err = "none"
    /\ inp.loan_amount = Dollars(1000) /\ inp.interest_rate = 0 /\ inp.loan_term_years = 1
    /\ Len(out.ret.val) = 12
    /\ \E k \in 1..Len(out.ret.val) :
          BalanceBefore(out.ret.val, k) - out.ret.val[k].Balance # LoanPayment

\* C2, as claimed: at rate 0 the Balance of each entry is exactly `payment`
\* lower than the Balance of the previous entry.
C2_ZeroRateBalanceDropsByExactlyPayment ==
    (ScheduleReturned /\ ValidLoan(inp) /\ inp.interest_rate = 0) =>
        /\ out.ret.err = "none"
        /\ \A k \in 1..Len(out.ret.val) :
              BalanceBefore(out.ret.val, k) - out.ret.val[k].Balance = LoanPayment

C4_BalanceNeverNegative ==
    (ScheduleReturned /\ out.ret.err = "none") =>
        \A k \in 1..Len(out.ret.val) : out.ret.val[k].Balance >= 0

\* C4, a state of its case: a negative principal, whose balance the clamp
\* holds at 0 from the first entry on.
C4_Witness ==
    /\ ScheduleReturned /\ out.ret.err = "none"
    /\ inp.loan_amount < 0
    /\ Len(out.ret.val) > 0
    /\ out.ret.val[1].Balance = 0
    /\ inp.loan_amount - out.ret.val[1].Principal < 0

C6_SeriesLength ==
    (ProjectionReturned /\ out.ret.err = "none") =>
        IF out.file = "app"
        THEN /\ Len(out.ret.val.cash_flows) = inp.years * 12
             /\ Len(out.ret.val.rents) = inp.years * 12
        ELSE /\ out.ret.val.months = inp.years * 12
             /\ \A series \in { out.ret.val.rent, out.ret.val.vacancy_losses,
                                out.ret.val.mgmt_fees, out.ret.val.maintenance,
                                out.ret.val.expenses, out.ret.val.total_expenses,
                                out.ret.val.mortgage_payments, out.ret.val.cash_flows,
                                out.ret.val.cumulative_cash_flows, out.ret.val.balances,
                                out.ret.val.equity, out.ret.val.roi_over_time } :
                   Len(series) = inp.years * 12

\* C6, a state of its case: a projection over a horizon longer than the loan.
C6_Witness ==
    /\ ProjectionReturned /\ out.ret.err = "none"
    /\ inp.years > inp.loan_term_years
    /\ Len(RentSeries) = inp.years * 12
    /\ Len(out.ret.val.cash_flows) > inp.loan_term_years * 12

\* C7, as claimed: the mortgage payment in the net cash flow of month m is the
\* loan's payment if m <= loanTermYears * 12 and the mortgage is included, and
\* 0 otherwise.  In app.py it is what the net cash flow leaves of the rent
\* after the operating costs; rent_app.py returns it.  app.py charges the
\* payment in every month of the horizon, also after the loan term.
C7_MortgagePaymentStopsWithLoan ==
    (ProjectionReturned /\ out.ret.err = "none") =>
        \A m \in 1..(inp.years * 12) :
            (IF out.file = "app"
             THEN out.ret.val.rents[m] - out.ret.val.cash_flows[m]
                  - AppOperatingCosts(inp, out.ret.val.rents[m])
             ELSE out.ret.val.mortgage_payments[m])
            = (IF inp.include_mortgage /\ m <= inp.loan_term_years * 12
               THEN LoanPayment ELSE 0)

\* C8: in every month of every projection the net cash flow is the rent less
\* the vacancy loss (rent * vacancyRate / 100), the management fee, the
\* maintenance, tax, insurance, HOA, the other expenses and the mortgage
\* payment the engine charges, each once.  (The base of the fee and of the
\* maintenance is C9's subject, the months the mortgage is charged in C7's.)
C8_NetCashFlowTerms ==
    (ProjectionReturned /\ out.ret.err = "none") =>
        \A m \in 1..(inp.years * 12) :
            IF out.file = "app"
            THEN out.ret.val.cash_flows[m]
                 = out.ret.val.rents[m]
                   - MulRate(out.ret.val.rents[m], DivInt(inp.vacancy_rate, 100))
                   - MulRate(out.ret.val.rents[m], DivInt(inp.mgmt_fee_percent, 100))
                   - MulRate(out.ret.val.rents[m], DivInt(inp.maintenance_percent, 100))
                   - DivInt(inp.tax_annual, 12) - DivInt(inp.insurance_annual, 12)
                   - inp.hoa_monthly - inp.monthly_expenses - LoanPayment
            ELSE /\ out.ret.val.vacancy_losses[m]
                    = MulRate(out.ret.val.rent[m], DivInt(inp.vacancy_rate, 100))
                 /\ out.ret.val.expenses[m] = RentAppFixedCosts(inp, m - 1)
                 /\ out.ret.val.cash_flows[m]
                    = out.ret.val.rent[m] - out.ret.val.vacancy_losses[m]
                      - out.ret.val.mgmt_fees[m] - out.ret.val.maintenance[m]
                      - out.ret.val.expenses[m] - out.ret.val.mortgage_payments[m]

\* C8, a state of its case: a projection of app.py in which each of the nine
\* terms is positive.
C8_Witness ==
    /\ ProjectionReturned /\ out.file = "app" /\ out.ret.err = "none"
    /\ inp.vacancy_rate > 0 /\ inp.mgmt_fee_percent > 0 /\ inp.maintenance_percent > 0
    /\ inp.hoa_monthly > 0 /\ inp.monthly_expenses > 0
    /\ inp.tax_annual > 0 /\ inp.insurance_annual > 0 /\ LoanPayment > 0
    /\ out.ret.val.cash_flows[1] < out.ret.val.rents[1] - LoanPayment

\* C9, as claimed: in every month of every projection, of either engine, the
\* management fee and the maintenance are computed on the rent after vacancy,
\* (rent - vacancyLoss) * percent / 100.  app.py computes both on the gross
\* rent; what it charges for the two is what its net cash flow leaves of the
\* rent after the vacancy loss, the fixed costs and the mortgage payment.
C9_FeesOnPostVacancyRent ==
    (ProjectionReturned /\ out.ret.err = "none") =>
        \A m \in 1..(inp.years * 12) :
            LET rent == RentSeries[m]
                effective == rent - MulRate(rent, DivInt(inp.vacancy_rate, 100))
            IN  IF out.file = "app"
                THEN rent - out.ret.val.cash_flows[m]
                     - MulRate(rent, DivInt(inp.vacancy_rate, 100))
                     - DivInt(inp.tax_annual, 12) - DivInt(inp.insurance_annual, 12)
                     - inp.hoa_monthly - inp.monthly_expenses - LoanPayment
                     = MulRate(effective, DivInt(inp.mgmt_fee_percent, 100))
                       + MulRate(effective, DivInt(inp.maintenance_percent, 100))
                ELSE /\ out.ret.val.mgmt_fees[m]
                        = MulRate(effective, DivInt(inp.mgmt_fee_percent, 100))
                     /\ out.ret.val.maintenance[m]
                        = MulRate(effective, DivInt(inp.maintenance_percent, 100))

\* C10, as claimed: the m-th element (m = 1..years * 12) of the rent series of
\* every projection is baseRent * (1 + rentGrowthPercent / 100 / 12) ^ m.
\* rent_app.py counts its months from 0, so its m-th element has exponent
\* m - 1 and its first month is not grown.
C10_RentExponentIsMonth ==
    (ProjectionReturned /\ out.ret.err = "none") =>
        \A m \in 1..(inp.years * 12) :
            RentSeries[m]
            = MulRate(inp.current_rent,
                      Pow(RateScale + DivInt(DivInt(inp.rent_growth_percent, 100), 12), m))

\* C11, as claimed: in rent_app.py the tax, insurance, HOA and other-expense
\* amounts of month m (m = 1..years * 12) are each the monthly base amount
\* times (1 + inflationPercent / 100 / 12) ^ m; in app.py they are flat, the
\* net cash flow being the rent less the rent-based costs, the flat fixed
\* costs and the payment.  rent_app.py counts its months from 0, so the fixed
\* costs of its m-th month carry exponent m - 1 and those of its first month
\* are not inflated.
C11_FixedCostsInflatedByMonth ==
    (ProjectionReturned /\ out.ret.err = "none") =>
        \A m \in 1..(inp.years * 12) :
            IF out.file = "app"
            THEN out.ret.val.rents[m] - out.ret.val.cash_flows[m]
                 = AppOperatingCosts(inp, out.ret.val.rents[m]) + LoanPayment
            ELSE out.ret.val.expenses[m] = RentAppFixedCosts(inp, m)

\* The sum of the first i elements of f.
RunningSum(f, i) == Sum(SubSeq(f, 1, i))

\* A break-even month was computed: by app.py's break-even section, or by
\* calculate_cashflows of rent_app.py (payback_months).
PaybackReturned ==
    /\ out.fn = "breakeven_month" \/ (ProjectionReturned /\ out.file = "rent_app")
    /\ out.ret.err = "none"

PaybackMonth ==
    IF out.fn = "breakeven_month" THEN out.ret.val.breakeven_month
    ELSE out.ret.val.payback_months

\* C12: the break-even month is the smallest month i (1-based) whose running
\* sum of net cash flows of months 1..i is >= the down payment, and is None
\* (0 here) exactly when no month of the horizon has such a running sum.
C12_BreakEvenIsFirstMonth ==
    PaybackReturned =>
        /\ PaybackMonth \in 0..(inp.years * 12)
        /\ PaybackMonth # 0 =>
              /\ RunningSum(out.ret.val.cash_flows, PaybackMonth) >= inp.down_payment
              /\ \A i \in 1..(PaybackMonth - 1) :
                    RunningSum(out.ret.val.cash_flows, i) < inp.down_payment
        /\ PaybackMonth = 0 =>
              \A i \in 1..(inp.years * 12) :
                  RunningSum(out.ret.val.cash_flows, i) < inp.down_payment

\* C12, a state of its case: a break-even month later than the first month.
C12_Witness ==
    /\ PaybackReturned
    /\ PaybackMonth > 1
    /\ RunningSum(out.ret.val.cash_flows, PaybackMonth) >= inp.down_payment
    /\ RunningSum(out.ret.val.cash_flows, 1) < inp.down_payment

\* C13, as claimed: the equity of month m (1-based) is the home value after m
\* months of appreciation less the balance after the m-th payment.  app.py
\* pairs schedule row i (0-based), whose Balance is the balance after payment
\* i + 1, with the home value after i months: its entry for month m has the
\* home value of month m - 1.  rent_app.py has no appreciation: its home value
\* is the purchase price in every month.
C13_EquityMonthsAligned ==
    /\ (out.fn = "equity_list" /\ out.ret.err = "none") =>
          \A m \in 1..Len(out.ret.val.equity_list) :
              out.ret.val.equity_list[m]
              = MulRate(inp.purchase_price,
                        FracPow12(RateScale + DivInt(out.ret.val.appreciation_rate, 100), m))
                - out.ret.val.balances[m]
    /\ (ProjectionReturned /\ out.file = "rent_app" /\ out.ret.err = "none") =>
          \A m \in 1..(inp.years * 12) :
              out.ret.val.equity[m] = inp.purchase_price - out.ret.val.balances[m]

SignChange == inp.down_payment > 0 /\ \E k \in 1..Len(inp.cash_flows) : inp.cash_flows[k] > 0

\* C15, as claimed: calculate_irr never raises; it returns None whenever the
\* solver fails or raises, yields NaN or infinity, or the series has no sign
\* change, and the solver's rate times 100 otherwise.  The code tests
\* np.isnan(irr) only: an infinite solver result comes back as irr * 100,
\* which is infinite.
C15_IrrAbsentOrRateTimes100 ==
    (out.fn = "calculate_irr") =>
        /\ out.ret.err = "none"
        /\ IF inp.solver = "root" /\ SignChange
           THEN /\ out.ret.val.is = "number"
                /\ out.ret.val.v
                   = 100 * RootBetween(<<-inp.down_payment>> \o inp.cash_flows, RootLo, RootHi)
           ELSE out.ret.val = None

\* C16, as claimed: for a negative seed followed by constant positive flows,
\* calculate_npv evaluated at the percent calculate_irr returns is 0 within
\* the solver's tolerance (one cent here).  calculate_irr returns the rate per
\* period (month) times 100; calculate_npv divides the percent it is given by
\* 100 and by 12: it discounts at a twelfth of the internal rate.
C16_NpvAtIrrIsZero ==
    (out.fn = "calculate_irr" /\ inp.solver = "root" /\ SignChange) =>
        /\ out.ret.err = "none" /\ out.ret.val.is = "number"
        /\ Abs(calculate_npv(inp.cash_flows, inp.down_payment, out.ret.val.v).val.v) <= Cent

\* C17: calculate_npv returns -down_payment, undiscounted, plus the k-th
\* monthly flow divided by (1 + r) ^ k, r = discount_rate / 100 / 12; at a
\* discount rate of 0 that is sum(cash_flows) - down_payment.
C17_NpvIsDiscountedSum ==
    (out.fn = "calculate_npv") =>
        /\ out.ret.err = "none" /\ out.ret.val.is = "number"
        /\ out.ret.val.v
           = Sum([k \in 1..Len(inp.cash_flows) |->
                     MulDiv(inp.cash_flows[k], RateScale,
                            PowNat(RateScale + DivInt(DivInt(inp.discount_rate, 100), 12), k))])
             - inp.down_payment
        /\ inp.discount_rate = 0 => out.ret.val.v = Sum(inp.cash_flows) - inp.down_payment

\* C17, a state of its case: positive flows discounted at a positive rate,
\* worth less than their sum.
C17_Witness ==
    /\ out.fn = "calculate_npv" /\ out.ret.err = "none" /\ out.ret.val.is = "number"
    /\ inp.discount_rate > 0 /\ inp.down_payment > 0
    /\ inp.cash_flows[1] > 0
    /\ out.ret.val.v < Sum(inp.cash_flows) - inp.down_payment
    /\ out.ret.val.v > -inp.down_payment

\* The scoring block returned finite scores.
ScoreReturned == out.fn = "deal_score" /\ out.ret.err = "none" /\ out.ret.val.finite

\* The five calls of normalize of a scoring: <<value, ideal, max_score, score>>.
NormalizeCalls ==
    { <<inp.coc_return, Points(12), Points(30), out.ret.val.coc_score>>,
      <<inp.roi_final, Points(100), Points(25), out.ret.val.roi_score>>,
      <<out.ret.val.irr, Points(15), Points(20), out.ret.val.irr_score>>,
      <<out.ret.val.npv, inp.down_payment, Points(15), out.ret.val.npv_score>>,
      <<inp.cap_rate, Points(6), Points(10), out.ret.val.cap_score>> }

\* C18: normalize(value, ideal, max_score) with a positive ideal is
\* max_score at and above the ideal, value * max_score / ideal below it, and
\* never more than max_score.
C18_NormalizeClampedLinear ==
    (ScoreReturned /\ inp.down_payment > 0) =>
        \A c \in NormalizeCalls :
            /\ c[4] <= c[3]
            /\ c[1] >= c[2] => c[4] = c[3]
            /\ c[1] < c[2] => Abs(c[4] - MulDiv(c[1], c[3], c[2])) <= 1

\* C18, a state of its case: one score clamped at its weight by a value above
\* the ideal, one strictly between 0 and its weight, and one negative.
C18_Witness ==
    /\ ScoreReturned
    /\ inp.coc_return > Points(12) /\ out.ret.val.coc_score = Points(30)
    /\ out.ret.val.npv > 0 /\ out.ret.val.npv < inp.down_payment
    /\ out.ret.val.npv_score > 0 /\ out.ret.val.npv_score < Points(15)

\* The score of one metric, by the formula of the claim.
Component(value, target, weight) ==
    IF value >= target THEN weight ELSE MulDiv(value, weight, target)

ComponentSum ==
    out.ret.val.coc_score + out.ret.val.roi_score + out.ret.val.irr_score
        + out.ret.val.npv_score + out.ret.val.cap_score

\* The five scores are those of the pairs (12, 30), (100, 25), (15, 20),
\* (down payment, 15), (6, 10).
FivePairs ==
    /\ Abs(out.ret.val.coc_score - Component(inp.coc_return, Points(12), Points(30))) <= 1
    /\ Abs(out.ret.val.roi_score - Component(inp.roi_final, Points(100), Points(25))) <= 1
    /\ Abs(out.ret.val.irr_score - Component(out.ret.val.irr, Points(15), Points(20))) <= 1
    /\ Abs(out.ret.val.npv_score
           - Component(out.ret.val.npv, inp.down_payment, Points(15))) <= 1
    /\ Abs(out.ret.val.cap_score - Component(inp.cap_rate, Points(6), Points(10))) <= 1

OnlyCocAtTarget ==
    /\ inp.coc_return = Points(12) /\ inp.roi_final = 0 /\ out.ret.val.irr = 0
    /\ out.ret.val.npv = 0 /\ inp.cap_rate = 0

C19_AllFiveCount ==
    /\ ScoreReturned /\ out.ret.val.cap_score = Points(10)
    /\ out.ret.val.deal_score = Points(100)

\* The rating of a score, by the thresholds of the claim.
RatingAt(score) ==
    CASE score >= Points(90) -> "Excellent Deal"
      [] score >= Points(75) /\ score < Points(90) -> "Strong Deal"
      [] score >= Points(60) /\ score < Points(75) -> "Moderate Deal"
      [] score < Points(60) -> "Weak Deal"

\* C20, as claimed: the rating is Excellent from 90, Strong from 75, Moderate
\* from 60 and Weak below, decided on the sum of the five scores.  The code
\* rounds the sum to one decimal first and rates the rounded score: a sum of
\* 89.97 is rated as 90.0.
C20_RatingOfTrueSum ==
    ScoreReturned => out.ret.val.rating = RatingAt(ComponentSum)

\* C21, as claimed: every component score is at least 0, and so is the deal
\* score.  normalize has no lower clamp: a negative metric gives a negative
\* score.
C21_ScoresFlooredAtZero ==
    ScoreReturned =>
        /\ \A c \in NormalizeCalls : c[4] >= 0
        /\ out.ret.val.deal_score >= 0

\* C27: with a positive down payment each of the five scores is at most its
\* weight (30, 25, 20, 15, 10), and the deal score, the rounded sum, is at
\* most 100.
C27_ScoresAtMostWeights ==
    (out.fn = "deal_score" /\ inp.down_payment > 0) =>
        /\ out.ret.err = "none"
        /\ out.ret.val.coc_score <= Points(30)
        /\ out.ret.val.roi_score <= Points(25)
        /\ out.ret.val.irr_score <= Points(20)
        /\ out.ret.val.npv_score <= Points(15)
        /\ out.ret.val.cap_score <= Points(10)
        /\ out.ret.val.deal_score <= Points(100)

\* C27, a state of its case: every metric at or above its target, one of them
\* at twice its target, and a deal score of exactly 100.
C27_Witness ==
    /\ ScoreReturned
    /\ inp.coc_return = Points(24) /\ inp.roi_final = Points(100)
    /\ out.ret.val.irr = Points(15) /\ out.ret.val.npv = inp.down_payment
    /\ inp.cap_rate = Points(6) /\ inp.down_payment > 0
    /\ out.ret.val.deal_score = Points(100)

CapRateReturned ==
    /\ out.fn = "cap_rate" \/ (ProjectionReturned /\ out.file = "rent_app")
    /\ out.ret.err = "none"

\* Annual rent income less all operating expenses (tax, insurance, HOA, other
\* expenses, vacancy loss, management fee, maintenance) and no debt service:
\* over the first twelve months in app.py, twelve times the monthly mean in
\* rent_app.py, the fees being those the engine of the file deducts.
NoiOfClaim ==
    IF out.file = "app"
    THEN Sum([m \in 1..12 |->
                 out.ret.val.rents[m]
                 - MulRate(out.ret.val.rents[m], DivInt(inp.vacancy_rate, 100))
                 - MulRate(out.ret.val.rents[m], DivInt(inp.mgmt_fee_percent, 100))
                 - MulRate(out.ret.val.rents[m], DivInt(inp.maintenance_percent, 100))])
         - (inp.monthly_expenses + DivInt(inp.tax_annual, 12)
            + DivInt(inp.insurance_annual, 12) + inp.hoa_monthly) * 12
    ELSE DivInt(Sum([m \in 1..(inp.years * 12) |->
                        out.ret.val.rent[m] - out.ret.val.total_expenses[m]]),
                inp.years * 12) * 12

\* C22, as claimed: the cap rate is the annual NOI over the purchase price
\* times 100 (to a hundredth of a percent), the NOI being rent less all
\* operating expenses, vacancy loss, management fee and maintenance included,
\* and no debt service.  app.py deducts none of the three from the NOI, and
\* rent_app.py only the vacancy loss.
C22_CapRateOnFullNoi ==
    CapRateReturned =>
        Abs(out.ret.val.cap_rate - MulDiv(NoiOfClaim, 100 * MoneyScale, inp.purchase_price))
            <= Cent

\* C23: every calculation of a session is made with the operating
\* assumptions of its own mode: all 0 outside the Advanced mode of app.py, the
\* typical averages in the basic analysis of rent_app.py, and the values the
\* Advanced widgets hold in the Advanced calculations, whatever was entered
\* or calculated before.
C23_NoCarryOver ==
    \A i \in 1..Len(log) :
        /\ log[i].ret.err = "none"
        /\ (log[i].file = "app" /\ log[i].mode # "Advanced") =>
               \A f \in DOMAIN ZeroSettings : log[i].ret.val[f] = 0
        /\ (log[i].file = "app" /\ log[i].mode = "Advanced") =>
               log[i].ret.val = log[i].widgets
        /\ (log[i].file = "rent_app" /\ log[i].mode = "Basic") =>
               /\ log[i].ret.val.vacancy_rate = Percent(50)
               /\ log[i].ret.val.mgmt_fee_percent = Percent(80)
               /\ log[i].ret.val.maintenance_percent = Percent(50)
               /\ log[i].ret.val.monthly_expenses = Dollars(350)
               /\ log[i].ret.val.hoa_monthly = 0
               /\ log[i].ret.val.rent_growth_percent = Percent(25)
               /\ log[i].ret.val.inflation_percent = Percent(20)
        /\ (log[i].file = "rent_app" /\ log[i].mode = "Advanced") =>
               log[i].ret.val = log[i].widgets

\* C23, a state of its case: an Advanced calculation of app.py with values
\* other than 0, then a switch to Basic (With Rent) and a calculation there,
\* the Advanced widgets still holding their values.
C23_Witness ==
    /\ Len(log) = 2
    /\ log[1].file = "app" /\ log[1].mode = "Advanced"
    /\ log[1].ret.val.vacancy_rate > 0 /\ log[1].ret.val.discount_rate > 0
    /\ log[2].file = "app" /\ log[2].mode = "Basic (With Rent)"
    /\ log[2].widgets = log[1].ret.val
    /\ log[2].ret.val.vacancy_rate = 0

\* C23, a second state: an Advanced analysis of rent_app.py with inputs other
\* than the typical averages, then a basic analysis.
C23_RentAppBasicAfterAdvanced ==
    /\ Len(log) = 2
    /\ log[1].file = "rent_app" /\ log[1].mode = "Advanced"
    /\ log[1].ret.val # TypicalAverages
    /\ log[2].file = "rent_app" /\ log[2].mode = "Basic"
    /\ log[2].widgets = log[1].ret.val

\* The running balances of a loan after payments k..n, never rounded, the
\* balance before payment k being `balance`.
RECURSIVE CarriedBalances(_, _, _, _, _)
CarriedNext(payment, monthly_rate, n, k, next) ==
    <<next>> \o CarriedBalances(payment, monthly_rate, n, k + 1, next)

CarriedBalances(payment, monthly_rate, n, k, balance) ==
    IF k > n THEN << >>
    ELSE CarriedNext(payment, monthly_rate, n, k,
                     IF balance - (payment - MulRate(balance, monthly_rate)) > 0
                     THEN balance - (payment - MulRate(balance, monthly_rate)) ELSE 0)

\* Entry k of schedule s holds the values of month k rounded to 2 decimals,
\* computed from the unrounded balances `carried`.
EntryRoundedFromCarried(s, carried, k, before, payment, monthly_rate) ==
    /\ s[k].Payment % Cent = 0 /\ s[k].Principal % Cent = 0
    /\ s[k].Interest % Cent = 0 /\ s[k].Balance % Cent = 0
    /\ s[k].Payment = RoundDiv(payment, Cent) * Cent
    /\ s[k].Interest = RoundDiv(MulRate(before, monthly_rate), Cent) * Cent
    /\ s[k].Principal = RoundDiv(payment - MulRate(before, monthly_rate), Cent) * Cent
    /\ s[k].Balance = RoundDiv(carried[k], Cent) * Cent

ScheduleRoundedFromCarried(s, carried, payment, monthly_rate) ==
    \A k \in 1..Len(s) :
        EntryRoundedFromCarried(s, carried, k,
                                IF k = 1 THEN inp.loan_amount ELSE carried[k - 1],
                                payment, monthly_rate)

\* C24, as claimed: in the schedule of a valid loan every entry's payment,
\* principal, interest and balance are rounded to 2 decimals, and they are
\* the roundings of the values of a balance carried unrounded from month to
\* month.  amortization_schedule of rent_app.py rounds nothing.
C24_EntriesRoundedBalanceCarriedUnrounded ==
    (ScheduleReturned /\ ValidLoan(inp)) =>
        /\ out.ret.err = "none"
        /\ ScheduleRoundedFromCarried(
               out.ret.val,
               CarriedBalances(LoanPayment, MonthlyRate(inp.interest_rate),
                               inp.loan_term_years * 12, 1, inp.loan_amount),
               LoanPayment, MonthlyRate(inp.interest_rate))

\* C25, as claimed: the quick summary shows N/A for IRR, respectively NPV, if
\* and only if the metric is None, and the scoring block takes a None metric
\* for 0 without failing.  The code tests the truth of the metric (`if irr`,
\* `if npv`): a metric of exactly 0 is shown as N/A as well.
C25_PlaceholderIffAbsent ==
    /\ out.fn = "quick_summary" =>
           /\ out.ret.err = "none"
           /\ (out.ret.val.irr_metric.text = "N/A") <=> (out.ret.val.irr = None)
           /\ (out.ret.val.npv_metric.text = "N/A") <=> (out.ret.val.npv = None)
    /\ (out.fn = "deal_score" /\ inp.down_payment > 0) =>
           /\ out.ret.err = "none"
           /\ inp.irr = None => (out.ret.val.irr = 0 /\ out.ret.val.irr_score = 0)
           /\ inp.npv = None => (out.ret.val.npv = 0 /\ out.ret.val.npv_score = 0)

\* C26, as claimed: with a down payment of 0 every division by the down
\* payment is guarded and gives a number: the cash-on-cash return and the
\* ROI % column of app.py, the ROI over time and the cash-on-cash return of
\* rent_app.py, and the NPV score of the scoring block.  app.py guards the
\* cash-on-cash return only: the ROI % column divides numpy floats by 0 (inf,
\* -inf or nan), and normalize(npv, 0, 15) raises ZeroDivisionError or
\* divides to an infinity.
C26_ZeroDownPaymentGuarded ==
    /\ (out.fn = "roi_table" /\ inp.down_payment = 0) =>
           /\ out.ret.err = "none"
           /\ \A i \in 1..inp.years : out.ret.val.roi_percent[i].is = "number"
    /\ (ProjectionReturned /\ out.file = "rent_app" /\ inp.down_payment = 0) =>
           /\ out.ret.err = "none"
           /\ out.ret.val.coc_return = 0
           /\ \A m \in 1..(inp.years * 12) : out.ret.val.roi_over_time[m] = 0
    /\ (out.fn = "deal_score" /\ inp.down_payment = 0) =>
           /\ out.ret.err = "none"
           /\ out.ret.val.finite

\* C28: calculate_cashflows of rent_app.py returns the same dictionary with
\* include_expenses = False as with include_expenses = True, the operating
\* expenses being deducted in both, and with include_mortgage = False every
\* mortgage payment is 0.
C28_IncludeExpensesHasNoEffect ==
    (ProjectionReturned /\ out.file = "rent_app") =>
        /\ out.ret
           = rent_app_calculate_cashflows([inp EXCEPT !.include_expenses = ~inp.include_expenses])
        /\ out.ret.err = "none"
        /\ \A m \in 1..(inp.years * 12) :
               /\ out.ret.val.cash_flows[m]
                  = out.ret.val.rent[m] - out.ret.val.total_expenses[m]
                    - out.ret.val.mortgage_payments[m]
               /\ out.ret.val.total_expenses[m] >= out.ret.val.expenses[m]
               /\ out.ret.val.expenses[m] > 0
               /\ ~inp.include_mortgage => out.ret.val.mortgage_payments[m] = 0

\* C28, a state of its case: a call with include_expenses = False and
\* include_mortgage = False on a loan with a positive payment; the expenses
\* are deducted and no mortgage payment is.
C28_Witness ==
    /\ ProjectionReturned /\ out.file = "rent_app" /\ out.ret.err = "none"
    /\ ~inp.include_expenses /\ ~inp.include_mortgage
    /\ inp.mgmt_fee_percent > 0
    /\ out.ret.val.total_expenses[1] > 0
    /\ out.ret.val.cash_flows[1] = out.ret.val.rent[1] - out.ret.val.total_expenses[1]
    /\ rent_app_calculate_cashflows([inp EXCEPT !.include_mortgage = TRUE]).val.mortgage_payments[1]
       > 0

====
